---------------------------- MODULE Spec2Model ----------------------------
(***************************************************************************)
(* A model of src/app.py: the heading detector (find_heading), the article *)
(* segmenter and artifact writer (extract_to_markdown), the file-name      *)
(* sanitizer (slugify) and the batch loop of the front-end (main).         *)
(*                                                                         *)
(* Text is a sequence of one-character strings, so that strip, split,      *)
(* lower-casing and the regular-expression substitutions are computed      *)
(* character by character as Python computes them.  Python's None is the   *)
(* empty sequence: the only values compared with None in the code are      *)
(* titles and headings, and neither is ever the empty string (a heading    *)
(* has at least min_chars characters, a fallback title starts "article_"). *)
(***************************************************************************)
EXTENDS Integers, Sequences, FiniteSets, TLC

VARIABLES
    doc,        \* extract_to_markdown: the pages of the opened document
    pageno,     \* extract_to_markdown: pages walked so far (enumerate, start=1)
    current,    \* extract_to_markdown: the article under construction
    articles,   \* extract_to_markdown: the closed articles
    csv,        \* extract_to_markdown: rows written to output.csv
    md,         \* extract_to_markdown: the files written under articles/
    pc,         \* extract_to_markdown: "walk", "done" ("idle": not running)
    fh,         \* one call of find_heading: arguments and return value
    pp,         \* one page's text and the paragraphs lines 83-84 derive
    uploaded,   \* main: the uploaded files
    idx,        \* main: files of the batch already handled by the loop
    results,    \* main: the list `results`
    disk,       \* main: the output directories under tmp
    shown,      \* main: the results displayed
    mpc         \* main: "start", "loop", "display", "shown", "info", "raised"

vars == <<doc, pageno, current, articles, csv, md, pc, fh, pp,
          uploaded, idx, results, disk, shown, mpc>>

segVars == <<doc, pageno, current, articles, csv, md, pc>>
mainVars == <<uploaded, idx, results, disk, shown, mpc>>

---------------------------------------------------------------------------
(* Bounds of the model.                                                    *)
MaxPages == 3       \* pages of a document
MaxImgs == 2        \* images on a page that has images
MaxBlocks == 2      \* blocks handed to one find_heading call
MaxTextLen == 5     \* characters of a page text in the paragraph split
MaxDocs == 3        \* files of an upload batch
MaxNameLen == 1     \* characters of an uploaded file's stem

(* Program constants.                                                      *)
size_thresh == 18
y_margin_pct == 15  \* y_margin_frac = 0.15, in hundredths
min_chars == 10
maxlen == 50

None == <<>>

---------------------------------------------------------------------------
(* Text helpers: str.lower, str.strip, str.split, str.join, re.sub.        *)

Upper == <<"A","B","C","D","E","F","G","H","I","J","K","L","M",
           "N","O","P","Q","R","S","T","U","V","W","X","Y","Z">>
LowerLetters == <<"a","b","c","d","e","f","g","h","i","j","k","l","m",
                  "n","o","p","q","r","s","t","u","v","w","x","y","z">>
Digits == <<"0","1","2","3","4","5","6","7","8","9">>

Range(s) == {s[i] : i \in DOMAIN s}

UpperSet == Range(Upper)

LowerOf == [c \in UpperSet |-> LowerLetters[CHOOSE i \in DOMAIN Upper : Upper[i] = c]]

LowerChar(c) == IF c \in UpperSet THEN LowerOf[c] ELSE c

Lower(s) == [i \in DOMAIN s |-> LowerChar(s[i])]

RECURSIVE LStripOf(_, _)
LStripOf(s, cs) ==
    IF s # <<>> /\ Head(s) \in cs THEN LStripOf(Tail(s), cs) ELSE s

RECURSIVE RStripOf(_, _)
RStripOf(s, cs) ==
    IF s # <<>> /\ s[Len(s)] \in cs
    THEN RStripOf(SubSeq(s, 1, Len(s) - 1), cs)
    ELSE s

StripOf(s, cs) == RStripOf(LStripOf(s, cs), cs)

Whitespace == {" ", "\n", "\t", "\r"}

Strip(s) == StripOf(s, Whitespace)

RECURSIVE Filter(_, _)
Filter(s, keep) ==
    IF s = <<>> THEN <<>>
    ELSE IF Head(s) \in keep THEN <<Head(s)>> \o Filter(Tail(s), keep)
    ELSE Filter(Tail(s), keep)

(* re.sub(r'[cs]+', <<rep>>, s): every maximal run of characters of cs     *)
(* becomes one rep.                                                        *)
RECURSIVE CollapseRuns(_, _, _)
CollapseRuns(s, cs, rep) ==
    IF s = <<>> THEN <<>>
    ELSE IF Head(s) \in cs
    THEN <<rep>> \o CollapseRuns(LStripOf(s, cs), cs, rep)
    ELSE <<Head(s)>> \o CollapseRuns(Tail(s), cs, rep)

(* sep.join(parts), sep a text.                                            *)
RECURSIVE Join(_, _)
Join(parts, sep) ==
    IF parts = <<>> THEN <<>>
    ELSE IF Len(parts) = 1 THEN parts[1]
    ELSE parts[1] \o sep \o Join(Tail(parts), sep)

(* s.split("\n\n"): left to right, non-overlapping separators.             *)
RECURSIVE SplitBlank(_, _)
SplitBlank(s, acc) ==
    IF s = <<>> THEN <<acc>>
    ELSE IF Len(s) >= 2 /\ s[1] = "\n" /\ s[2] = "\n"
    THEN <<acc>> \o SplitBlank(SubSeq(s, 3, Len(s)), <<>>)
    ELSE SplitBlank(Tail(s), Append(acc, Head(s)))

(* str(n) for n >= 0.                                                      *)
RECURSIVE DecStr(_)
DecStr(n) ==
    IF n < 10 THEN <<Digits[n + 1]>>
    ELSE DecStr(n \div 10) \o <<Digits[(n % 10) + 1]>>

---------------------------------------------------------------------------
(* slugify, lines 15-19.                                                   *)

WordChars == Range(Upper) \cup Range(LowerLetters) \cup Range(Digits) \cup {"_"}

SlugKeep == WordChars \cup Whitespace \cup {"-"}

SlugSeparators == Whitespace \cup {"_", "-"}

slugify(s) ==
    LET s1 == Lower(s)
        s2 == Filter(s1, SlugKeep)
        s3 == CollapseRuns(s2, SlugSeparators, "_")
        s4 == StripOf(s3, {"_"})
        s5 == SubSeq(s4, 1, IF Len(s4) < maxlen THEN Len(s4) ELSE maxlen)
    IN  IF s5 = <<>> THEN <<"a","r","t","i","c","l","e">> ELSE s5

---------------------------------------------------------------------------
(* find_heading, lines 21-39.  A block is [type, y0, spans]: spans is the  *)
(* flattening of blk["lines"][*]["spans"] (line 32), each span [size,      *)
(* text]; y0 is bbox[1], 0 for a block without bbox (line 29).  Lengths    *)
(* are whole units, so y0 > page_height * 0.15 is compared in hundredths;  *)
(* font sizes are tenths of a unit (179 is 17.9), so the threshold is      *)
(* 10 * size_thresh.                                                       *)

SeqMax(s) == CHOOSE m \in Range(s) : \A x \in Range(s) : x <= m

(* lines 35-36 *)
HeadingText(spans) ==
    LET joined == Join([i \in DOMAIN spans |-> Strip(spans[i].text)], <<" ">>)
    IN  Strip(CollapseRuns(joined, Whitespace, " "))

RECURSIVE find_heading_excl_limit(_, _)
find_heading_excl_limit(blocks, page_height) ==
    IF blocks = <<>> THEN None
    ELSE LET blk == Head(blocks)
             rest == find_heading_excl_limit(Tail(blocks), page_height)
             sizes == [i \in DOMAIN blk.spans |-> blk.spans[i].size]
             text == HeadingText(blk.spans)
         IN  IF blk.type # 0 THEN rest
             ELSE IF blk.y0 * 100 >= page_height * y_margin_pct THEN rest
             ELSE IF blk.spans = <<>> \/ SeqMax(sizes) < 10 * size_thresh THEN rest
             ELSE IF Len(text) >= min_chars THEN text
             ELSE rest

RECURSIVE find_heading(_, _)
find_heading(blocks, page_height) ==
    IF blocks = <<>> THEN None
    ELSE LET blk == Head(blocks)
             rest == find_heading(Tail(blocks), page_height)
             sizes == [i \in DOMAIN blk.spans |-> blk.spans[i].size]
             text == HeadingText(blk.spans)
         IN  IF blk.type # 0 THEN rest
             ELSE IF blk.y0 * 100 > page_height * y_margin_pct THEN rest
             ELSE IF blk.spans = <<>> \/ SeqMax(sizes) < 10 * size_thresh THEN rest
             ELSE IF Len(text) >= min_chars THEN text
             ELSE rest

---------------------------------------------------------------------------
(* extract_to_markdown, lines 41-132.  An article is the dict of lines     *)
(* 51-52; start_page and end_page None are 0 (pages count from 1).  A page *)
(* is [blocks, height, text, nimgs]: page.get_text("dict")["blocks"],      *)
(* page.rect.height, page.get_text() and the length of page.get_images().  *)
(* A stored image is [folder, page, idx]: the folder name and the          *)
(* p<page>_i<idx> of its file name (lines 91-97); the extension, which     *)
(* depends on the image alone (line 96), is left out.                      *)

NewArticle(id) ==
    [id |-> id, title |-> None, start_page |-> 0, end_page |-> 0,
     paragraphs |-> <<>>]

(* f"{n:03d}" *)
Pad3(n) ==
    LET d == DecStr(n)
    IN  IF Len(d) >= 3 THEN d
        ELSE IF Len(d) = 2 THEN <<"0">> \o d
        ELSE <<"0", "0">> \o d

(* lines 91 and 119: f"{id:03d}_{slugify(title)}" *)
ArtName(id, title) == Pad3(id) \o <<"_">> \o slugify(title)

(* Variants of lines 66-76 with one slip each: the closed article ends on  *)
(* the heading's page; the new article keeps the old id; the open article  *)
(* is retitled instead of closed.                                          *)
OnHeading_end_on_heading_page(st, heading, pn) ==
    IF heading = None THEN st
    ELSE LET close == st.current.title # None
             arts == IF close
                     THEN Append(st.articles, [st.current EXCEPT !.end_page = pn])
                     ELSE st.articles
             cur == IF close THEN NewArticle(st.current.id + 1)
                    ELSE st.current
         IN  [current |-> [cur EXCEPT !.title = heading, !.start_page = pn],
              articles |-> arts]

OnHeading_same_id(st, heading, pn) ==
    IF heading = None THEN st
    ELSE LET close == st.current.title # None
             arts == IF close
                     THEN Append(st.articles,
                                 [st.current EXCEPT !.end_page = pn - 1])
                     ELSE st.articles
             cur == IF close THEN NewArticle(st.current.id)
                    ELSE st.current
         IN  [current |-> [cur EXCEPT !.title = heading, !.start_page = pn],
              articles |-> arts]

OnHeading_retitle(st, heading, pn) ==
    IF heading = None THEN st
    ELSE [current |-> [st.current EXCEPT !.title = heading,
                                         !.start_page =
                                             IF @ = 0 THEN pn ELSE @],
          articles |-> st.articles]

(* lines 66-76, on st = [current, articles] *)
OnHeading(st, heading, pn) ==
    IF heading = None THEN st
    ELSE LET close == st.current.title # None
             arts == IF close
                     THEN Append(st.articles,
                                 [st.current EXCEPT !.end_page = pn - 1])
                     ELSE st.articles
             cur == IF close THEN NewArticle(st.current.id + 1)
                    ELSE st.current
         IN  [current |-> [cur EXCEPT !.title = heading, !.start_page = pn],
              articles |-> arts]

(* Variant of lines 78-80: the synthetic title counts from 0.              *)
Fallback_zero_based(cur) ==
    IF cur.title = None
    THEN [cur EXCEPT !.title = <<"a","r","t","i","c","l","e","_">> \o DecStr(cur.id - 1),
                     !.start_page = 1]
    ELSE cur

(* lines 78-80 *)
Fallback(cur) ==
    IF cur.title = None
    THEN [cur EXCEPT !.title = <<"a","r","t","i","c","l","e","_">> \o DecStr(cur.id),
                     !.start_page = 1]
    ELSE cur

(* Variant of lines 83-84 without the filter `if p.strip()`.               *)
PageParas_unfiltered(page_text) == SplitBlank(Strip(page_text), <<>>)

(* lines 83-84 *)
PageParas(page_text) ==
    LET parts == SplitBlank(Strip(page_text), <<>>)
        kept == {i \in DOMAIN parts : Strip(parts[i]) # <<>>}
        F[i \in 0..Len(parts)] ==
            IF i = 0 THEN <<>>
            ELSE IF i \in kept THEN Append(F[i - 1], parts[i]) ELSE F[i - 1]
    IN  F[Len(parts)]

(* lines 85-86 *)
AppendParas(cur, paras) ==
    [cur EXCEPT !.paragraphs =
        @ \o [i \in DOMAIN paras |-> [text |-> paras[i], images |-> <<>>]]]

(* Variant of lines 89-99: the images go to the article's first paragraph. *)
AttachImages_first(cur, nimgs, pn) ==
    IF nimgs > 0 /\ cur.paragraphs # <<>>
    THEN LET art_folder == ArtName(cur.id, cur.title)
             paths == [i \in 1..nimgs |->
                          [folder |-> art_folder, page |-> pn, idx |-> i]]
         IN  [cur EXCEPT !.paragraphs[1].images = @ \o paths]
    ELSE cur

(* lines 89-99 *)
AttachImages(cur, nimgs, pn) ==
    IF nimgs > 0 /\ cur.paragraphs # <<>>
    THEN LET art_folder == ArtName(cur.id, cur.title)
             last == Len(cur.paragraphs)
             paths == [i \in 1..nimgs |->
                          [folder |-> art_folder, page |-> pn, idx |-> i]]
         IN  [cur EXCEPT !.paragraphs[last].images = @ \o paths]
    ELSE cur

(* one iteration of the loop of line 63 *)
PageStep(st, page, pn) ==
    LET heading == find_heading(page.blocks, page.height)
        s1 == OnHeading(st, heading, pn)
        c2 == Fallback(s1.current)
        c3 == AppendParas(c2, PageParas(page.text))
        c4 == AttachImages(c3, page.nimgs, pn)
    IN  [current |-> c4, articles |-> s1.articles]

(* Variant of lines 101-104 without the guard of line 102.                 *)
Finalize_unguarded(st, page_count) ==
    Append(st.articles, [st.current EXCEPT !.end_page = page_count])

(* lines 101-104 *)
Finalize(st, page_count) ==
    IF st.current.title # None
    THEN Append(st.articles, [st.current EXCEPT !.end_page = page_count])
    ELSE st.articles

RECURSIVE SumLens(_)
SumLens(paragraphs) ==
    IF paragraphs = <<>> THEN 0
    ELSE Len(Head(paragraphs).images) + SumLens(Tail(paragraphs))

CsvHeader == <<"id", "title", "start_page", "end_page", "image_count">>

(* lines 107-115 *)
CsvRows(arts) ==
    <<CsvHeader>> \o
    [i \in DOMAIN arts |->
        <<arts[i].id, arts[i].title, arts[i].start_page, arts[i].end_page,
          SumLens(arts[i].paragraphs)>>]

(* lines 118-130: one file per article, its name, heading line and body *)
MdFiles(arts) ==
    [i \in DOMAIN arts |->
        [fname |-> ArtName(arts[i].id, arts[i].title) \o <<".", "m", "d">>,
         title |-> arts[i].title,
         body |-> arts[i].paragraphs]]

---------------------------------------------------------------------------
(* The documents the segmenter is run on: every page has no heading or one *)
(* of two headings, no paragraph or two, and no image or MaxImgs images.   *)

Span(size, text) == [size |-> size, text |-> text]
Blk(type, y0, spans) == [type |-> type, y0 |-> y0, spans |-> spans]

TitleA == <<"B","i","g"," ","N","e","w","s"," ","1">>
TitleB == <<"T","o","p","-","S","t","o","r","y","!">>
BodyLine == <<"b","o","d","y"," ","t","e","x","t",".">>

PageBlocks ==
    { <<Blk(0, 40, <<Span(110, BodyLine)>>)>>,
      <<Blk(0, 10, <<Span(240, TitleA)>>), Blk(0, 40, <<Span(110, BodyLine)>>)>>,
      <<Blk(1, 5, <<>>), Blk(0, 10, <<Span(240, TitleB)>>)>> }

PageTexts ==
    { <<>>,
      <<"a", "\n", "\n", "b", "\n">> }

Pages ==
    [blocks : PageBlocks, height : {100}, text : PageTexts, nimgs : {0, MaxImgs}]

Docs == UNION {[1..n -> Pages] : n \in 0..MaxPages}

IdleFh == [blocks |-> <<>>, page_height |-> 0, ret |-> None, called |-> FALSE]
IdlePp == [text |-> <<>>, paras |-> <<>>, called |-> FALSE]

SegIdle ==
    /\ doc = <<>> /\ pageno = 0 /\ current = NewArticle(1) /\ articles = <<>>
    /\ csv = <<>> /\ md = <<>> /\ pc = "idle"

MainIdle ==
    /\ uploaded = <<>> /\ idx = 0 /\ results = <<>> /\ disk = <<>>
    /\ shown = <<>> /\ mpc = "idle"

(* lines 49-60: the document is open, nothing is walked or written yet *)
Init ==
    /\ doc \in Docs
    /\ pageno = 0
    /\ current = NewArticle(1)
    /\ articles = <<>>
    /\ csv = <<>>
    /\ md = <<>>
    /\ pc = "walk"
    /\ fh = IdleFh /\ pp = IdlePp
    /\ MainIdle

(* lines 63-99 *)
ProcessPage ==
    /\ pc = "walk"
    /\ pageno < Len(doc)
    /\ LET st == PageStep([current |-> current, articles |-> articles],
                          doc[pageno + 1], pageno + 1)
       IN  /\ current' = st.current
           /\ articles' = st.articles
    /\ pageno' = pageno + 1
    /\ UNCHANGED <<doc, csv, md, pc, fh, pp>>
    /\ UNCHANGED mainVars

(* lines 101-132 *)
Finish ==
    /\ pc = "walk"
    /\ pageno = Len(doc)
    /\ articles' = Finalize([current |-> current, articles |-> articles], Len(doc))
    /\ csv' = CsvRows(articles')
    /\ md' = MdFiles(articles')
    /\ pc' = "done"
    /\ UNCHANGED <<doc, pageno, current, fh, pp>>
    /\ UNCHANGED mainVars

Next == ProcessPage \/ Finish

Spec == Init /\ [][Next]_vars

---------------------------------------------------------------------------
(* Properties of the segmenter, under Spec.                                *)

Done == pc = "done"

HeadingOn(p) == find_heading(doc[p].blocks, doc[p].height)

ParasOn(p) == PageParas(doc[p].text)

(* The images attached to paragraph k of article a.                        *)
ImagesAt(a, k) == Range(a.paragraphs[k].images)

ImagesOf(a) == UNION {ImagesAt(a, k) : k \in DOMAIN a.paragraphs}

(* The number of paragraphs pages from..to yield.                          *)
RECURSIVE ParaCount(_, _)
ParaCount(from, to) ==
    IF to < from THEN 0 ELSE ParaCount(from, to - 1) + Len(ParasOn(to))

(* C1: for a document with at least one page, the returned articles        *)
(* partition the pages: every range is non-empty, the first starts at page *)
(* 1, each next one starts at the previous end_page + 1, the last ends at  *)
(* the last page, and every page lies in exactly one article.              *)
C1_ArticlesPartitionPages ==
    (Done /\ Len(doc) >= 1) =>
        /\ articles # <<>>
        /\ articles[1].start_page = 1
        /\ articles[Len(articles)].end_page = Len(doc)
        /\ \A i \in DOMAIN articles :
              articles[i].start_page <= articles[i].end_page
        /\ \A i \in 1..(Len(articles) - 1) :
              articles[i + 1].start_page = articles[i].end_page + 1
        /\ \A p \in DOMAIN doc :
              Cardinality({i \in DOMAIN articles :
                  articles[i].start_page <= p /\ p <= articles[i].end_page}) = 1

C1_Witness ==
    /\ Done /\ Len(doc) = 3 /\ Len(articles) = 2
    /\ articles[1].end_page = 2 /\ articles[2].start_page = 3

C3_NoHeadingOneArticle ==
    (Done /\ Len(doc) >= 1 /\ \A p \in DOMAIN doc : HeadingOn(p) = None) =>
        /\ Len(articles) = 1
        /\ articles[1].id = 1
        /\ articles[1].title = <<"a","r","t","i","c","l","e","_","1">>
        /\ articles[1].start_page = 1
        /\ articles[1].end_page = Len(doc)

C3_Witness ==
    /\ Done /\ Len(doc) = 3 /\ \A p \in DOMAIN doc : HeadingOn(p) = None
    /\ Len(articles) = 1

(* C4: the ids of the articles, in list order, are 1, 2, ..., n, and the   *)
(* list order is the order in which the articles were opened (ascending    *)
(* start pages).                                                           *)
C4_IdsContiguousInOpeningOrder ==
    /\ \A i \in DOMAIN articles : articles[i].id = i
    /\ \A i \in 1..(Len(articles) - 1) :
          articles[i].start_page < articles[i + 1].start_page
    /\ (pc = "walk") => current.id = Len(articles) + 1

C4_Witness == Done /\ Len(articles) = 3

(* C7: a document with zero pages gives no article and an index holding    *)
(* the header row alone.                                                   *)
C7_ZeroPagesEmptyIndex ==
    (Done /\ Len(doc) = 0) =>
        /\ articles = <<>>
        /\ csv = <<CsvHeader>>
        /\ md = <<>>

C7_Witness == Done /\ doc = <<>> /\ csv # <<>>

(* C10: every stored image of an article lies in the folder named from the *)
(* article's id and title as they are now and at the end: the id and title *)
(* do not change once an image of the article is stored.                   *)
C10_ImageFolderIsFinalName ==
    /\ \A i \in DOMAIN articles :
          \A img \in ImagesOf(articles[i]) :
              img.folder = ArtName(articles[i].id, articles[i].title)
    /\ \A img \in ImagesOf(current) :
          img.folder = ArtName(current.id, current.title)

C10_Witness ==
    /\ Done /\ Len(articles) >= 2
    /\ ImagesOf(articles[1]) # {} /\ ImagesOf(articles[2]) # {}
    /\ articles[1].title # articles[2].title

---------------------------------------------------------------------------
(* find_heading on its own: one call on bounded block lists.               *)

X9 == <<"x","x","x","x","x","x","x","x","x">>
X10 == <<"x","x","x","x","x","x","x","x","x","x">>
Y10 == <<"y","y","y","y","y","y","y","y","y","y">>

SpanLists ==
    { <<>>,
      <<Span(180, X10)>>,
      <<Span(179, X10)>>,
      <<Span(180, X9)>>,
      <<Span(240, Y10)>>,
      <<Span(100, <<"x","x","x","x"," ">>), Span(180, <<" ","y","y","y","y","y">>)>>,
      <<Span(180, <<"x","x","x","x"," ","\n"," ","y","y","y","y">>)>> }

FhBlocks == [type : {0, 1}, y0 : {15, 16, 30}, spans : SpanLists]

FhBlockLists == UNION {[1..n -> FhBlocks] : n \in 0..MaxBlocks}

InitFH ==
    /\ fh \in [blocks : FhBlockLists, page_height : {100, 200},
               ret : {None}, called : {FALSE}]
    /\ pp = IdlePp
    /\ SegIdle
    /\ MainIdle

CallFindHeading ==
    /\ ~fh.called
    /\ fh' = [fh EXCEPT !.ret = find_heading(fh.blocks, fh.page_height),
                        !.called = TRUE]
    /\ UNCHANGED <<pp>>
    /\ UNCHANGED segVars
    /\ UNCHANGED mainVars

NextFH == CallFindHeading

SpecFH == InitFH /\ [][NextFH]_vars

(* The four conditions of the claim on block i of the call.                *)
C8_Qualifies(i) ==
    LET blk == fh.blocks[i]
    IN  /\ blk.type = 0
        /\ 100 * blk.y0 <= 15 * fh.page_height
        /\ \E k \in DOMAIN blk.spans : blk.spans[k].size >= 180
        /\ Len(HeadingText(blk.spans)) >= 10

(* C8: find_heading returns the cleaned text of the first block, in block  *)
(* order, that is a text block, has its top edge at or above 0.15 x        *)
(* page_height, a largest span size of at least 18 and a cleaned text of   *)
(* at least 10 characters; none when there is no such block.               *)
C8_FirstQualifyingBlock ==
    fh.called =>
        LET good == {i \in DOMAIN fh.blocks : C8_Qualifies(i)}
        IN  IF good = {} THEN fh.ret = None
            ELSE \E i \in good :
                    /\ \A j \in good : i <= j
                    /\ fh.ret = HeadingText(fh.blocks[i].spans)

(* The first block sits exactly on both limits with a text of exactly 10   *)
(* characters and wins over a later qualifying block with another text.    *)
C8_Witness ==
    /\ fh.called
    /\ Len(fh.blocks) = 2
    /\ C8_Qualifies(1) /\ C8_Qualifies(2)
    /\ 100 * fh.blocks[1].y0 = 15 * fh.page_height
    /\ \A k \in DOMAIN fh.blocks[1].spans : fh.blocks[1].spans[k].size <= 180
    /\ Len(fh.ret) = 10
    /\ fh.ret # HeadingText(fh.blocks[2].spans)

---------------------------------------------------------------------------
(* Lines 83-86 on their own: the paragraphs one page text appends to a     *)
(* fresh article.                                                          *)

TextChars == {"a", " ", "\n"}

PageTextsUpTo(n) == UNION {[1..k -> TextChars] : k \in 0..n}

InitPP ==
    /\ pp \in [text : PageTextsUpTo(MaxTextLen), paras : {<<>>}, called : {FALSE}]
    /\ fh = IdleFh
    /\ SegIdle
    /\ MainIdle

AppendPageParas ==
    /\ ~pp.called
    /\ pp' = [pp EXCEPT
                !.paras = AppendParas(NewArticle(1), PageParas(pp.text)).paragraphs,
                !.called = TRUE]
    /\ UNCHANGED <<fh>>
    /\ UNCHANGED segVars
    /\ UNCHANGED mainVars

NextPP == AppendPageParas

SpecPP == InitPP /\ [][NextPP]_vars

IsBlank(s) == \A i \in DOMAIN s : s[i] \in Whitespace

HasBlankLine(s) == \E i \in 1..(Len(s) - 1) : s[i] = "\n" /\ s[i + 1] = "\n"

IsPrefix(p, s) == Len(p) <= Len(s) /\ SubSeq(s, 1, Len(p)) = p

(* s is texts[1] gap texts[2] gap ... texts[n], every gap whitespace that  *)
(* starts with a blank-line boundary.                                      *)
RECURSIVE SeparatedBy(_, _)
SeparatedBy(s, texts) ==
    IF texts = <<>> THEN s = <<>>
    ELSE /\ IsPrefix(texts[1], s)
         /\ LET rest == SubSeq(s, Len(texts[1]) + 1, Len(s))
            IN  IF Len(texts) = 1 THEN rest = <<>>
                ELSE \E g \in 2..Len(rest) :
                        /\ rest[1] = "\n" /\ rest[2] = "\n"
                        /\ IsBlank(SubSeq(rest, 1, g))
                        /\ SeparatedBy(SubSeq(rest, g + 1, Len(rest)), Tail(texts))

ParaTexts == [k \in DOMAIN pp.paras |-> pp.paras[k].text]

---------------------------------------------------------------------------
(* main, lines 135-208.  An uploaded file is [name, fails, pages]: its     *)
(* file name, where decoding it raises ("open": fitz.open, line 49;        *)
(* "walk": a page's text or image extraction, lines 64-98; "none") and the *)
(* pages it decodes to.  disk maps the name of an output directory under   *)
(* tmp to what it holds: the rows of output.csv and the names of the files *)
(* under articles/.                                                        *)

(* extract_to_markdown as a whole, lines 63-104 *)
RECURSIVE WalkPages(_, _, _)
WalkPages(st, pages, pn) ==
    IF pn > Len(pages) THEN st
    ELSE WalkPages(PageStep(st, pages[pn], pn), pages, pn + 1)

ExtractArticles(pages) ==
    Finalize(WalkPages([current |-> NewArticle(1), articles |-> <<>>], pages, 1),
             Len(pages))

(* Path(name).stem: the name without its last suffix *)
Stem(name) ==
    LET dots == {i \in DOMAIN name : name[i] = "." /\ i > 1 /\ i < Len(name)}
    IN  IF dots = {} THEN name
        ELSE SubSeq(name, 1, (CHOOSE i \in dots : \A j \in dots : j <= i) - 1)

(* line 157 *)
OutDir(file) == slugify(Stem(file.name))

WriteDir(d, dir, content) ==
    [x \in DOMAIN d \cup {dir} |-> IF x = dir THEN content ELSE d[x]]

EmptyDir == [csv |-> <<>>, md |-> {}]

OutputOf(arts) ==
    [csv |-> CsvRows(arts),
     md |-> {MdFiles(arts)[i].fname : i \in DOMAIN arts}]

NameChars == {"a", "A", "b"}

Stems == UNION {[1..k -> NameChars] : k \in 1..MaxNameLen}

FileNames == {st \o <<".", "p", "d", "f">> : st \in Stems}

MainPages ==
    { <<[blocks |-> <<Blk(0, 10, <<Span(240, TitleA)>>)>>, height |-> 100,
         text |-> <<"a">>, nimgs |-> 0]>>,
      <<[blocks |-> <<Blk(0, 10, <<Span(240, TitleB)>>)>>, height |-> 100,
         text |-> <<"b">>, nimgs |-> 1]>> }

Files == [name : FileNames, fails : {"none", "open", "walk"}, pages : MainPages]

Batches ==
    {b \in UNION {[1..n -> Files] : n \in 0..MaxDocs} :
        \A i, j \in DOMAIN b : i # j => b[i].name # b[j].name}

InitMain ==
    /\ uploaded \in Batches
    /\ idx = 0
    /\ results = <<>>
    /\ disk = <<>>
    /\ shown = <<>>
    /\ mpc = "start"
    /\ fh = IdleFh /\ pp = IdlePp
    /\ SegIdle

(* lines 143-145 *)
NoUpload ==
    /\ mpc = "start"
    /\ uploaded = <<>>
    /\ mpc' = "info"
    /\ UNCHANGED <<uploaded, idx, results, disk, shown>>
    /\ UNCHANGED <<fh, pp>>
    /\ UNCHANGED segVars

(* lines 147-151: the button is pressed, tmp is a fresh directory *)
StartBatch ==
    /\ mpc = "start"
    /\ uploaded # <<>>
    /\ mpc' = "loop"
    /\ UNCHANGED <<uploaded, idx, results, disk, shown>>
    /\ UNCHANGED <<fh, pp>>
    /\ UNCHANGED segVars

(* lines 152-159, one file; fitz.open raises at line 49, before out_dir is *)
(* touched, and the exception leaves main                                  *)
ExtractOpenFails ==
    /\ mpc = "loop"
    /\ idx < Len(uploaded)
    /\ uploaded[idx + 1].fails = "open"
    /\ mpc' = "raised"
    /\ UNCHANGED <<uploaded, idx, results, disk, shown>>
    /\ UNCHANGED <<fh, pp>>
    /\ UNCHANGED segVars

(* lines 152-159, one file; a page raises in the loop of line 63, after    *)
(* lines 57-60 emptied out_dir, and the exception leaves main              *)
ExtractWalkFails ==
    /\ mpc = "loop"
    /\ idx < Len(uploaded)
    /\ uploaded[idx + 1].fails = "walk"
    /\ disk' = WriteDir(disk, OutDir(uploaded[idx + 1]), EmptyDir)
    /\ mpc' = "raised"
    /\ UNCHANGED <<uploaded, idx, results, shown>>
    /\ UNCHANGED <<fh, pp>>
    /\ UNCHANGED segVars

(* lines 152-159, one file that decodes *)
ExtractOne ==
    /\ mpc = "loop"
    /\ idx < Len(uploaded)
    /\ uploaded[idx + 1].fails = "none"
    /\ LET out_dir == OutDir(uploaded[idx + 1])
           arts == ExtractArticles(uploaded[idx + 1].pages)
       IN  /\ disk' = WriteDir(disk, out_dir, OutputOf(arts))
           /\ results' = Append(results, [out_dir |-> out_dir, articles |-> arts])
    /\ idx' = idx + 1
    /\ UNCHANGED <<uploaded, shown, mpc>>
    /\ UNCHANGED <<fh, pp>>
    /\ UNCHANGED segVars

(* The results whose article files are all on disk (line 181 reads them).  *)
Readable(res) ==
    \A i \in DOMAIN res.articles :
        (ArtName(res.articles[i].id, res.articles[i].title) \o <<".", "m", "d">>)
            \in disk[res.out_dir].md

(* lines 162-208: the results are shown in order; read_text of a missing   *)
(* article file raises                                                     *)
Display ==
    /\ mpc = "loop"
    /\ idx = Len(uploaded)
    /\ LET bad == {k \in DOMAIN results : ~Readable(results[k])}
       IN  IF bad = {}
           THEN /\ shown' = results
                /\ mpc' = "shown"
           ELSE /\ shown' = SubSeq(results, 1,
                                   (CHOOSE k \in bad : \A j \in bad : k <= j) - 1)
                /\ mpc' = "raised"
    /\ UNCHANGED <<uploaded, idx, results, disk>>
    /\ UNCHANGED <<fh, pp>>
    /\ UNCHANGED segVars

NextMain ==
    \/ NoUpload
    \/ StartBatch
    \/ ExtractOpenFails
    \/ ExtractWalkFails
    \/ ExtractOne
    \/ Display

SpecMain == InitMain /\ [][NextMain]_vars

MainOver == mpc \in {"shown", "raised"}

(* C5: when decoding a file of the batch fails, that file alone is dropped *)
(* and every other file, before or after it, has its result kept and       *)
(* shown.                                                                  *)
C5_OtherDocumentsSurvive ==
    (MainOver /\ \E i \in DOMAIN uploaded : uploaded[i].fails # "none") =>
        /\ \A i \in DOMAIN uploaded :
              uploaded[i].fails = "none" =>
                  \E k \in DOMAIN shown : shown[k].out_dir = OutDir(uploaded[i])
        /\ Len(shown) =
              Cardinality({i \in DOMAIN uploaded : uploaded[i].fails = "none"})

(* C6: the output directories of two different files of a batch differ,    *)
(* and the output written for a file stays on disk as it was written.      *)
C6_OutputDirsDisjoint ==
    /\ \A i, j \in 1..idx :
          i # j => OutDir(uploaded[i]) # OutDir(uploaded[j])
    /\ \A k \in DOMAIN results :
          disk[results[k].out_dir] = OutputOf(results[k].articles)

=============================================================================
